---- MODULE Spec2Model ----
(***************************************************************************)
(* A model of notion-astro-loader's page renderer (src/src/render.ts):     *)
(* the recursive, paginated block listing (listBlocks), the per-block      *)
(* asset rewriting, the on-disk asset cache (downloadImage), the           *)
(* table-of-contents flattening (extractTocHeadings) and the renderer      *)
(* object (NotionPageRenderer: getPageData, render, #fetchImage).          *)
(*                                                                         *)
(* Strings are sequences of tokens: a URL is <<origin, "/", "img", ".",    *)
(* "PNG", "?", "sig", "=", "abc">>.                                         *)
(***************************************************************************)
EXTENDS Integers, Sequences, FiniteSets, TLC

VARIABLES
  \* --- filename derivation (downloadImage, lines 508-520) on its own
  urlParts,     \* the components the URL under test was assembled from
  url,          \* the URL string handed to downloadImage
  filename,     \* the filename downloadImage computed for it, or NoString
  \* --- extractTocHeadings on its own
  toc,          \* the outline root handed to extractTocHeadings
  tocItems,     \* the forest of headings the outline was built from
  tocResult,    \* what extractTocHeadings produced
  \* --- the process: the asset cache on disk, and buildProcessor's closure
  files,        \* public/notion-images: filename -> "absent" | "partial" | "complete"
  dl,           \* per caller, the fileToImageAsset call it is awaiting
  returnedPaths,\* per source URL, the local paths its resolutions have returned
  unlinking,    \* the files whose fs.unlink has been issued and has not run yet
  headings,     \* `let headings` of buildProcessor, shared by every process() call
  \* --- per page, its NotionPageRenderer
  attrs,        \* the page object's cover and files property
  imagePaths,   \* #imagePaths
  rpc,          \* where the render call stands
  stack,        \* the listBlocks generators of the render call, innermost last
  blocks,       \* the materialized blocks handed to process
  result,       \* what the render call returned
  renderError,  \* what the render call logged with "Failed to render"
  tpc,          \* where the rewrite task started by getPageData stands
  pageData,     \* what the latest getPageData call returned, and how many calls there were
  taskLog,      \* the failures the rewrite tasks have logged, by the catch that logged them
  \* --- what the environment does
  env,          \* the workload of the run: what the callers, the API and the servers may do
  delivered,    \* per page, the children pages the API returned to the render call
  fallbacks,    \* per page, the blocks whose asset fetch failed in the render call
  callPaths,    \* per page, the local paths #fetchImage produced in the render call
  resolved,     \* per page, the ids of the blocks those paths were produced for
  nextId,       \* block records the API has delivered
  nRenders,     \* render calls made
  nTasks,       \* getPageData calls made
  nRequests     \* https.get requests issued

nameVars == <<urlParts, url, filename>>
tocVars == <<toc, tocItems, tocResult>>
cacheVars == <<files, dl, returnedPaths, unlinking, nRequests>>
renderVars == <<rpc, stack, blocks, result, renderError, delivered, fallbacks, callPaths, resolved,
                nextId, nRenders, headings, env>>
taskVars == <<attrs, tpc, pageData, taskLog, nTasks>>
mainVars == <<cacheVars, renderVars, taskVars, imagePaths>>

----------------------------------------------------------------------------
(* Sequence helpers *)

NoString == <<>>

Last(s) == s[Len(s)]

\* the largest index i of s with s[i] = c, or 0
LastIndexOf(s, c) ==
  LET hits == {i \in 1..Len(s) : s[i] = c}
  IN IF hits = {} THEN 0 ELSE CHOOSE i \in hits : \A j \in hits : j <= i

\* the smallest index i of s with s[i] \in cs, or Len(s) + 1
FirstIndexIn(s, cs) ==
  LET hits == {i \in 1..Len(s) : s[i] \in cs}
  IN IF hits = {} THEN Len(s) + 1 ELSE CHOOSE i \in hits : \A j \in hits : i <= j

\* String.prototype.toLowerCase on one token
Lower(t) ==
  CASE t = "PNG" -> "png"
    [] t = "JPG" -> "jpg"
    [] OTHER -> t

----------------------------------------------------------------------------
(* URLs and filenames: new URL(url).pathname, path.extname, md5 *)

Origin == "https://host"

\* new URL(url).pathname: what follows the origin, up to the query or fragment
Pathname(u) ==
  LET rest == SubSeq(u, 2, Len(u))
      stop == FirstIndexIn(rest, {"?", "#"})
      p == SubSeq(rest, 1, stop - 1)
  IN IF p = <<>> THEN <<"/">> ELSE p

\* path.extname: from the last "." of the last path segment to the end; empty
\* when the segment holds no "." or only starts with one
Extname(p) ==
  LET slash == LastIndexOf(p, "/")
      base == SubSeq(p, slash + 1, Len(p))
      dot == LastIndexOf(base, ".")
  IN IF dot <= 1 THEN <<>> ELSE SubSeq(base, dot, Len(base))

\* crypto.createHash('md5').update(url).digest('hex'): a digest of the whole
\* URL string, taken to be collision free
Md5(u) == <<"md5(">> \o u \o <<")">>

FallbackExtension == <<".", "jpg">>

\* a mis-derivation: the extension is taken from the whole URL, query included
DownloadExtensionOfFullUrl(u) ==
  IF Extname(u) = <<>> THEN FallbackExtension ELSE Extname(u)

\* line 516: path.extname(parsedUrl.pathname) || '.jpg'
DownloadExtension(u) ==
  IF Extname(Pathname(u)) = <<>> THEN FallbackExtension ELSE Extname(Pathname(u))

\* lines 513-518: `${urlHash}${extension}`
DownloadFilename(u) == Md5(u) \o DownloadExtension(u)

\* line 520: `/notion-images/${filename}`
PublicPath(u) == <<"/notion-images/">> \o DownloadFilename(u)

----------------------------------------------------------------------------
(* Filename derivation on bounded URLs *)

MaxDirs == 1

DirNames == {<<"dir">>, <<"v", ".", "two">>}
BaseNames == {<<"img">>, <<"my", ".", "img">>}
Extensions == {<<>>, <<"PNG">>, <<"png">>, <<"jpg">>, <<"pdf">>}
Queries == {<<>>, <<"?", "sig", "=", "abc">>, <<"?", "f", "=", "x", ".", "gif">>,
            <<"?", "r", "=", "/", "x", ".", "png">>, <<"#", "top">>}

RECURSIVE DirSeqs(_)
DirSeqs(n) ==
  IF n = 0 THEN {<<>>}
  ELSE DirSeqs(n - 1) \cup
       {<<"/">> \o d \o rest : d \in DirNames, rest \in DirSeqs(n - 1)}

\* a base name with a dot in it is always given an extension, so that the
\* components say what the extension of the path is
UrlParts ==
  {c \in [dirs : DirSeqs(MaxDirs), base : BaseNames, ext : Extensions, query : Queries] :
     c.ext = <<>> => \A i \in 1..Len(c.base) : c.base[i] # "."}

\* the URL string a set of components spells
UrlOf(c) ==
  <<Origin>> \o c.dirs \o <<"/">> \o c.base
    \o (IF c.ext = <<>> THEN <<>> ELSE <<".">> \o c.ext) \o c.query

NameInit ==
  /\ urlParts \in UrlParts
  /\ url = UrlOf(urlParts)
  /\ filename = NoString

NameCompute ==
  /\ filename = NoString
  /\ filename' = DownloadFilename(url)
  /\ UNCHANGED <<urlParts, url>>

----------------------------------------------------------------------------
(* extractTocHeadings, lines 201-228 *)

\* ordered forests of n headings: each heading holds the forest nested under it
MaxTocItems == 5
RECURSIVE Forests(_)
Forests(n) ==
  IF n = 0 THEN {<<>>}
  ELSE UNION {{<<[sub |-> f]>> \o rest : f \in Forests(k - 1), rest \in Forests(n - k)}
              : k \in 1..n}

\* the <a> of the heading at `path` (its position at each level of the outline)
LinkNode(path) ==
  [tagName |-> "a", properties |-> [href |-> <<"#">> \o path],
   children |-> <<[type |-> "text", value |-> path]>>]

RECURSIVE ListNode(_, _)
\* the <ol> rehype-toc builds for forest f, whose headings sit under `prefix`
ListNode(f, prefix) ==
  [tagName |-> "ol",
   children |->
     [i \in 1..Len(f) |->
        [tagName |-> "li",
         children |->
           IF f[i].sub = <<>> THEN <<LinkNode(prefix \o <<i>>)>>
           ELSE <<LinkNode(prefix \o <<i>>), ListNode(f[i].sub, prefix \o <<i>>)>>]]]

TocNode(tag, f) == [tagName |-> tag, children |-> <<ListNode(f, <<>>)>>]

RECURSIVE listElementToTree(_, _)
RECURSIVE flatMapItems(_, _, _)
\* lines 207-224: ol.children.flatMap(li => [currentHeading, ...subList headings])
flatMapItems(items, i, depth) ==
  IF i > Len(items) THEN <<>>
  ELSE LET li == items[i]
           link == li.children[1]
           currentHeading == [depth |-> depth,
                              text |-> link.children[1].value,
                              slug |-> Tail(link.properties.href)]
           own == IF Len(li.children) >= 2
                  THEN <<currentHeading>> \o listElementToTree(li.children[2], depth + 1)
                  ELSE <<currentHeading>>
       IN own \o flatMapItems(items, i + 1, depth)

listElementToTree(ol, depth) == flatMapItems(ol.children, 1, depth)

\* an extraction that takes any root and finds no headings under a wrong one
extractTocHeadingsLenient(t) ==
  IF t.tagName # "nav" THEN [threw |-> FALSE, headings |-> <<>>]
  ELSE [threw |-> FALSE, headings |-> listElementToTree(t.children[1], 0)]

\* a flattening that forgets to descend one level deeper
extractTocHeadingsFlat(t) ==
  IF t.tagName # "nav" THEN [threw |-> TRUE, headings |-> <<>>]
  ELSE [threw |-> FALSE,
        headings |-> [i \in 1..Len(listElementToTree(t.children[1], 0)) |->
                        [listElementToTree(t.children[1], 0)[i] EXCEPT !.depth = 0]]]

\* lines 201-228
extractTocHeadings(t) ==
  IF t.tagName # "nav" THEN [threw |-> TRUE, headings |-> <<>>]
  ELSE [threw |-> FALSE, headings |-> listElementToTree(t.children[1], 0)]

NotExtracted == [threw |-> FALSE, headings |-> <<[depth |-> -1, text |-> <<>>, slug |-> <<>>]>>]

TocInit ==
  /\ tocItems \in UNION {Forests(n) : n \in 0..MaxTocItems}
  /\ toc \in {TocNode(tag, tocItems) : tag \in {"nav", "div"}}
  /\ tocResult = NotExtracted

TocExtract ==
  /\ tocResult = NotExtracted
  /\ tocResult' = extractTocHeadings(toc)
  /\ UNCHANGED <<toc, tocItems>>

----------------------------------------------------------------------------
(* The environment: pages, asset URLs, the blocks the API can return *)

\* renderers (one per page) in the process
NumPages == 2
\* block records the API delivers in a run
MaxBlocks == 3
\* records per children page
PageSize == 2
\* render calls in a run
MaxRenders == 2
\* getPageData calls in a run
MaxTasks == 1
\* https.get requests in a run
MaxRequests == 3
\* entries of a page's files property
MaxPropFiles == 1
\* the count of redirects a resolution is tried against
RedirectBound == 3

Pages == 1..NumPages
Callers == Pages \X {"render", "task"}

UrlA == <<Origin, "/", "a", ".", "png">>
UrlB == <<Origin, "/", "b", ".", "PNG", "?", "sig", "=", "abc">>
UrlC == <<Origin, "/", "c", ".", "pdf">>
AssetUrls == {UrlA, UrlB, UrlC}
Filenames == {DownloadFilename(u) : u \in AssetUrls}

\* new URL(s) parses: s is absolute (a local path such as /notion-images/x is not)
IsAbsoluteUrl(s) == s # <<>> /\ s[1] = Origin

\* /\.(jpe?g|png|gif|webp|svg|avif)$/i, line 127
BlockImageExtensions == {"jpg", "jpeg", "png", "gif", "webp", "svg", "avif"}
\* /\.(jpe?g|png|gif|webp|svg|avif|bmp)$/i, line 366
PropertyImageExtensions == BlockImageExtensions \cup {"bmp"}

\* regex.test(s) for /\.(e1|e2|...)$/i
EndsInExtension(s, exts) ==
  Len(s) >= 2 /\ s[Len(s) - 1] = "." /\ Lower(Last(s)) \in exts

(* A block record. `payload` is block[block.type]: its `type` is the file      *)
(* object's (or the callout icon's) type, `ref` is payload[payload.type] as   *)
(* an object holding a url or, once rewritten, as a plain string.             *)
\* A reference as the payload holds it: the API's hosted file object
\* {url, expiry_time}, an object {url} alone (the API's external object, or the
\* one listBlocks builds for a callout icon), or a plain string
NoRef == [form |-> "none", value |-> NoString]
HostedRef(s) == [form |-> "hosted", value |-> s]
ObjectRef(s) == [form |-> "object", value |-> s]
StringRef(s) == [form |-> "string", value |-> s]
ApiRef(t, s) == IF t = "file" THEN HostedRef(s) ELSE ObjectRef(s)
NoChildren == [attached |-> FALSE, blocks |-> <<>>]

Payload(t, r, c, n) == [type |-> t, ref |-> r, caption |-> c, name |-> n, children |-> NoChildren]

FullBlock(type, hasChildren, payload) ==
  [id |-> 0, full |-> TRUE, type |-> type, has_children |-> hasChildren, payload |-> payload]

\* a partial block response holds an id and nothing else
PartialBlock ==
  [id |-> 0, full |-> FALSE, type |-> "undefined", has_children |-> FALSE,
   payload |-> Payload("none", NoRef, NoString, NoString)]

Caption == <<"caption">>

\* The API's blocks. Only block types that can hold children in Notion
\* (here paragraph and callout) come with has_children = true.
Paragraph(hc) == FullBlock("paragraph", hc, Payload("none", NoRef, NoString, NoString))
Image(t, u) == FullBlock("image", FALSE, Payload(t, ApiRef(t, u), Caption, NoString))
File(t, u) == FullBlock("file", FALSE, Payload(t, ApiRef(t, u), Caption, <<"name">>))
Video(t, u) == FullBlock("video", FALSE, Payload(t, ApiRef(t, u), Caption, NoString))
Pdf(t, u) == FullBlock("pdf", FALSE, Payload(t, ApiRef(t, u), Caption, NoString))
CalloutFileIcon(hc, u) == FullBlock("callout", hc, Payload("file", HostedRef(u), NoString, NoString))
CalloutEmoji(hc) == FullBlock("callout", hc, Payload("emoji", NoRef, NoString, NoString))
CalloutExternalIcon(hc, u) ==
  FullBlock("callout", hc, Payload("external", ObjectRef(u), NoString, NoString))
\* a block of a type listBlocks has no branch for
Unsupported == FullBlock("unsupported", FALSE, Payload("none", NoRef, NoString, NoString))

(* The workloads. A run is given one of them: the renderers in use, how many  *)
(* render and getPageData calls are made, how many block records the API      *)
(* delivers and of which kinds, how many requests the servers are sent.       *)
TreeBlocks ==
  {Paragraph(FALSE), Paragraph(TRUE), CalloutEmoji(TRUE), PartialBlock, Image("file", UrlA),
   Video("file", UrlC), Pdf("external", UrlC)}
AssetBlocks ==
  {Paragraph(FALSE), Image("file", UrlA), Image("file", UrlB), File("file", UrlA),
   File("file", UrlC), CalloutFileIcon(FALSE, UrlA)}
ExternalBlocks ==
  {Image("external", UrlA), File("external", UrlA), File("external", UrlC), File("file", UrlB)}
NestedBlocks ==
  {CalloutFileIcon(TRUE, UrlA), Image("file", UrlB), Paragraph(FALSE)}
PlainBlocks ==
  {CalloutExternalIcon(TRUE, UrlA), CalloutEmoji(FALSE), Unsupported, Paragraph(FALSE)}

Environments ==
  {[name |-> "tree", pages |-> {1}, renders |-> 1, tasks |-> 0, blocks |-> MaxBlocks,
    requests |-> 1, templates |-> TreeBlocks],
   [name |-> "assets", pages |-> {1}, renders |-> MaxRenders, tasks |-> 0, blocks |-> 2,
    requests |-> MaxRequests, templates |-> AssetBlocks],
   [name |-> "attributes", pages |-> {1}, renders |-> 1, tasks |-> MaxTasks, blocks |-> 1,
    requests |-> 2, templates |-> {Image("file", UrlA)}],
   [name |-> "concurrent", pages |-> Pages, renders |-> NumPages, tasks |-> 0, blocks |-> 2,
    requests |-> 2, templates |-> {Image("file", UrlA)}],
   [name |-> "external", pages |-> {1}, renders |-> 1, tasks |-> 0, blocks |-> 2,
    requests |-> 2, templates |-> ExternalBlocks],
   [name |-> "nested", pages |-> {1}, renders |-> 1, tasks |-> 0, blocks |-> MaxBlocks,
    requests |-> 2, templates |-> NestedBlocks],
   [name |-> "redirects", pages |-> {1}, renders |-> 1, tasks |-> 0, blocks |-> 1,
    requests |-> RedirectBound + 2, templates |-> {Image("file", UrlA)}],
   [name |-> "plain", pages |-> {1}, renders |-> 1, tasks |-> 0, blocks |-> 2,
    requests |-> 1, templates |-> PlainBlocks],
   [name |-> "again", pages |-> {1}, renders |-> 0, tasks |-> MaxTasks + 1, blocks |-> 0,
    requests |-> MaxPropFiles + 2, templates |-> {}],
   [name |-> "isolation", pages |-> {1}, renders |-> 0, tasks |-> 1, blocks |-> 0,
    requests |-> MaxPropFiles + 2, templates |-> {}],
   [name |-> "task", pages |-> {1}, renders |-> 0, tasks |-> 1, blocks |-> 0,
    requests |-> MaxPropFiles + 1, templates |-> {}]}

\* the children pages the API can answer with, when `room` more records may be delivered
ApiPages(room) ==
  UNION {[1..k -> env.templates] : k \in 0..(IF room < PageSize THEN room ELSE PageSize)}

WithIds(recs, base) == [i \in 1..Len(recs) |-> [recs[i] EXCEPT !.id = base + i]]

RootId(p) == 0 - p

----------------------------------------------------------------------------
(* format.ts: fileToUrl, fileToImageAsset, downloadImage up to its first await *)

\* lines 486-495
fileToUrl(file) ==
  CASE file.type = "external" -> file.ref.value
    [] file.type = "file" -> file.ref.value
    [] OTHER -> NoString

Rejected == [kind |-> "rejected", url |-> NoString, path |-> NoString]

\* an existence check that is never consulted
downloadImageStartNoCache(u, fs) ==
  IF ~IsAbsoluteUrl(u) THEN Rejected
  ELSE [kind |-> "request", url |-> u, path |-> NoString]

\* lines 501-533: new URL(url) may throw; an existing file is returned at once;
\* otherwise https.get is issued
downloadImageStart(u, fs) ==
  IF ~IsAbsoluteUrl(u) THEN Rejected
  ELSE IF fs[DownloadFilename(u)] # "absent"
       THEN [kind |-> "resolved", url |-> u, path |-> PublicPath(u)]
       ELSE [kind |-> "request", url |-> u, path |-> NoString]

\* lines 601-612, up to the await
fileToImageAssetStart(file, fs) ==
  IF fileToUrl(file) = NoString THEN Rejected
  ELSE downloadImageStart(fileToUrl(file), fs)

----------------------------------------------------------------------------
(* render.ts: #fetchImage, the block rewriting of listBlocks, render's catch *)

\* a #fetchImage that lets the failure through
fetchImageRethrow(file) == [threw |-> TRUE, value |-> NoString]

\* a #fetchImage that returns undefined when the image could not be fetched
fetchImageCatchUndefined(file) == [threw |-> FALSE, value |-> NoString]

\* lines 439-445: the catch of #fetchImage falls back to the remote URL
fetchImageCatch(file) == [threw |-> FALSE, value |-> fileToUrl(file)]

\* line 93
isFullBlockAlways(b) == TRUE

isFullBlock(b) == b.full

\* lines 122-127: the file block's URL, tested as a whole
fileBlockLooksLikeImage(b) == EndsInExtension(b.payload.ref.value, BlockImageExtensions)

\* a listBlocks that resolves the icon of every callout that has a URL
needsFetchAnyIcon(b) ==
  \/ b.type = "image"
  \/ b.type = "file" /\ fileBlockLooksLikeImage(b)
  \/ b.type = "callout" /\ b.payload.type \in {"file", "external"}

\* the blocks for which listBlocks calls fetchImage (lines 104, 127, 175)
needsFetch(b) ==
  \/ b.type = "image"
  \/ b.type = "file" /\ fileBlockLooksLikeImage(b)
  \/ b.type = "callout" /\ b.payload.type = "file"

\* lines 109-116, 129-138, 178-189: the block as yielded once fetchImage returned
rewritten(b, localPath) ==
  CASE b.type = "image" ->
         [b EXCEPT !.payload = Payload(b.payload.type, StringRef(localPath), b.payload.caption, NoString)]
    [] b.type = "file" ->
         [b EXCEPT !.payload =
            Payload(b.payload.type,
                    StringRef(IF b.payload.type = "external" THEN b.payload.ref.value ELSE localPath),
                    b.payload.caption, NoString)]
    [] OTHER -> \* callout: icon: {type: "file", file: {url: localPath}}
         [b EXCEPT !.payload.type = "file", !.payload.ref = ObjectRef(localPath)]

\* lines 104-194, after fetchImage settled with `fi`: what the generator does
\* next, yield a block or throw
yieldAfterFetch(b, fi) ==
  IF fi.threw
  THEN IF b.type = "image" THEN [threw |-> TRUE, block |-> b]
       ELSE [threw |-> FALSE, block |-> b]       \* catch: yield block
  ELSE [threw |-> FALSE, block |-> rewritten(b, fi.value)]

\* video and pdf blocks passed through as they are
yieldPlainUnchanged(b) == b

\* lines 139-142, 149-173, 195-197: the blocks yielded without a fetch
yieldPlain(b) ==
  IF b.type \in {"video", "pdf"}
  THEN [b EXCEPT !.payload =
          Payload(b.payload.type, StringRef(b.payload.ref.value), b.payload.caption, NoString)]
  ELSE b

\* a list of paths that grows at its front
imagePathsUnshift(paths, path) == <<path>> \o paths

\* line 437: this.#imagePaths.push(fetchedImageData.src)
imagePathsPush(paths, path) == Append(paths, path)

\* a #fetchImage that records what it returns, whatever the call gave
pushesPathAlways(d) == TRUE

\* lines 436-437: the push follows the await inside the try, so it is reached
\* only when fileToImageAsset resolved
pushesPath(d) == d.ok

\* a listBlocks that goes on without waiting for the call it made
notAwaited(what) == "block"

\* lines 98, 105, 128, 177: `await`: the generator stands still until the
\* children-list call or the fetchImage call it made has settled
awaited(what) == what

\* children listed and thrown away
attachChildrenNot(b, children) == b

\* lines 98-100: block[block.type].children = children
attachChildren(b, children) ==
  [b EXCEPT !.payload.children = [attached |-> TRUE, blocks |-> children]]

\* awaitAll that puts each item in front
awaitAllUnshift(res, item) == <<item>> \o res

\* lines 72-78: result.push(item)
awaitAllPush(res, item) == Append(res, item)

Pending == [state |-> "pending", html |-> <<>>, headings |-> <<>>, imagePaths |-> <<>>]
Undefined == [state |-> "undefined", html |-> <<>>, headings |-> <<>>, imagePaths |-> <<>>]

\* a render that lets the error reach its caller
renderRethrow(hs) == [state |-> "rejected", html |-> <<>>, headings |-> hs, imagePaths |-> <<>>]

\* lines 422-425: whatever was thrown, log it and return undefined
renderCatch(hs) == Undefined

----------------------------------------------------------------------------
(* The asset cache: one fileToImageAsset call per caller at a time *)

\* kind: the type of the file object handed in, url: the URL resolved, cur: the
\* URL of the request in flight, hops: the redirects followed, wrote: the file
\* of the write stream the call opened, why: what made the promise reject
Idle == [phase |-> "none", kind |-> "none", url |-> NoString, cur |-> NoString, ok |-> FALSE,
         path |-> NoString, late |-> FALSE, attached |-> FALSE, clobbered |-> FALSE,
         hops |-> 0, wrote |-> NoString, why |-> "none"]

Settled(d, ok, path) ==
  [Idle EXCEPT !.phase = "settled", !.kind = d.kind, !.url = d.url, !.ok = ok, !.path = path,
               !.hops = d.hops, !.wrote = d.wrote]

\* a promise that resolves with the public path whatever happened
rejectResolves(d, why) == Settled(d, TRUE, PublicPath(d.cur))

\* reject(error), lines 557, 578, 585, 591, and the throws of lines 511 and 605
reject(d, why) == [Settled(d, FALSE, NoString) EXCEPT !.why = why]

Noted(u, path) == [returnedPaths EXCEPT ![u] = @ \cup {path}]

\* caller c calls fileToImageAsset(file): the call runs up to its first await
BeginFetch(c, file) ==
  \E s \in {fileToImageAssetStart(file, files)}, u \in {fileToUrl(file)} :
  LET called == [Idle EXCEPT !.kind = file.type, !.url = u, !.cur = u]
  IN /\ s.kind = "request" => nRequests < env.requests
     /\ dl' = [dl EXCEPT ![c] =
                 CASE s.kind = "request" ->
                        [called EXCEPT !.phase = "request", !.late = (returnedPaths[u] # {})]
                   [] s.kind = "resolved" -> Settled(called, TRUE, s.path)
                   [] OTHER -> reject(called, IF u = NoString THEN "no url" ELSE "bad url")]
     /\ nRequests' = IF s.kind = "request" THEN nRequests + 1 ELSE nRequests
     /\ returnedPaths' = IF s.kind = "resolved" THEN Noted(u, s.path) ELSE returnedPaths

NoFetch(c) ==
  /\ dl' = [dl EXCEPT ![c] = Idle]
  /\ UNCHANGED <<nRequests, returnedPaths>>

ServerFrame == UNCHANGED <<renderVars, taskVars, imagePaths, nameVars, tocVars>>

\* lines 544-552: a 301/302 with a location re-enters downloadImage with it
Redirect(c, v) ==
  LET d == dl[c]
      s == downloadImageStart(v, files)
  IN /\ d.phase = "request"
     /\ v # d.cur
     /\ s.kind = "request" => nRequests < env.requests
     /\ dl' = [dl EXCEPT ![c] =
                 IF s.kind = "request" THEN [d EXCEPT !.cur = v, !.hops = @ + 1]
                 ELSE Settled([d EXCEPT !.hops = @ + 1], TRUE, s.path)]
     /\ nRequests' = IF s.kind = "request" THEN nRequests + 1 ELSE nRequests
     /\ returnedPaths' = IF s.kind = "resolved" THEN Noted(d.url, s.path) ELSE returnedPaths
     /\ UNCHANGED <<files, unlinking>>
     /\ ServerFrame

\* lines 554-559: any other status but 200 rejects
HttpError(c) ==
  /\ dl[c].phase = "request"
  /\ dl' = [dl EXCEPT ![c] = reject(@, "status")]
  /\ UNCHANGED <<files, unlinking, nRequests, returnedPaths>>
  /\ ServerFrame

\* lines 583-586: request 'error' rejects
RequestError(c) ==
  /\ dl[c].phase = "request"
  /\ dl' = [dl EXCEPT ![c] = reject(@, "error")]
  /\ UNCHANGED <<files, unlinking, nRequests, returnedPaths>>
  /\ ServerFrame

\* lines 588-592: the socket idles for 30 s, before or during the transfer; the
\* request is destroyed and the promise rejected, the file is left as it is
RequestTimeout(c) ==
  /\ dl[c].phase \in {"request", "writing"}
  /\ dl' = [dl EXCEPT ![c] = reject(@, "timeout")]
  /\ UNCHANGED <<files, unlinking, nRequests, returnedPaths>>
  /\ ServerFrame

\* lines 561-562: a 200 opens the write stream, which creates or truncates the file
Respond200(c) ==
  LET d == dl[c]
      fn == DownloadFilename(d.cur)
  IN /\ d.phase = "request"
     /\ files' = [files EXCEPT ![fn] = "partial"]
     /\ dl' = [x \in Callers |->
                 IF x = c THEN [d EXCEPT !.phase = "writing", !.attached = TRUE, !.wrote = fn]
                 ELSE IF dl[x].phase = "writing" /\ dl[x].cur = d.cur /\ dl[x].attached
                      THEN [dl[x] EXCEPT !.clobbered = TRUE]
                      ELSE dl[x]]
     /\ UNCHANGED <<unlinking, nRequests, returnedPaths>>
     /\ ServerFrame

\* lines 569-573: the stream finished; the promise resolves with publicPath.
\* A stream whose file was truncated under it by a later writer may leave a gap.
WriteFinish(c) ==
  LET d == dl[c]
      fn == DownloadFilename(d.cur)
      raced == d.clobbered /\ \E x \in Callers \ {c} :
                 dl[x].phase = "writing" /\ dl[x].cur = d.cur /\ dl[x].attached
  IN /\ d.phase = "writing"
     /\ \E st \in (IF raced THEN {"partial", "complete"} ELSE {"complete"}) :
          files' = IF d.attached THEN [files EXCEPT ![fn] = st] ELSE files
     /\ dl' = [dl EXCEPT ![c] = Settled(d, TRUE, PublicPath(d.cur))]
     /\ returnedPaths' = Noted(d.url, PublicPath(d.cur))
     /\ UNCHANGED <<unlinking, nRequests>>
     /\ ServerFrame

\* lines 575-579: the stream failed; fs.unlink is issued, which runs later on,
\* and the promise is rejected at once
WriteError(c) ==
  LET d == dl[c]
      fn == DownloadFilename(d.cur)
  IN /\ d.phase = "writing"
     /\ unlinking' = unlinking \cup {fn}
     /\ dl' = [dl EXCEPT ![c] = reject(d, "write")]
     /\ UNCHANGED <<files, nRequests, returnedPaths>>
     /\ ServerFrame

\* line 576: the unlink runs: whatever file has the name by then is removed,
\* and the streams that had it open write on to a file without a name
Unlink(fn) ==
  /\ fn \in unlinking
  /\ unlinking' = unlinking \ {fn}
  /\ files' = [files EXCEPT ![fn] = "absent"]
  /\ dl' = [x \in Callers |->
              IF dl[x].phase = "writing" /\ DownloadFilename(dl[x].cur) = fn
              THEN [dl[x] EXCEPT !.attached = FALSE]
              ELSE dl[x]]
  /\ UNCHANGED <<nRequests, returnedPaths>>
  /\ ServerFrame

----------------------------------------------------------------------------
(* NotionPageRenderer.render: listBlocks under awaitAll, then process *)

NewFrame(parent) == [parent |-> parent, queue |-> <<>>, more |-> FALSE, out |-> <<>>, cur |-> <<>>]

Top(p) == stack[p][Len(stack[p])]
SetTop(p, f) == [stack EXCEPT ![p] = [@ EXCEPT ![Len(@)] = f]]

RenderCaller(p) == <<p, "render">>
TaskCaller(p) == <<p, "task">>

\* the outline rehype-toc hands to customizeTOC for page p: p top-level
\* headings, the first with one heading nested under it
PageForest(p) == [i \in 1..p |-> [sub |-> IF i = 1 THEN <<[sub |-> <<>>]>> ELSE <<>>]]

RenderFrame == UNCHANGED <<taskVars, nextId, nRenders, env, nameVars, tocVars>>

\* lines 403-410: a render call starts listing the page's children.
\* Calls on one renderer follow one another.
Render(p) ==
  /\ p \in env.pages
  /\ rpc[p] \in {"idle", "done"}
  /\ nRenders < env.renders
  /\ nRenders' = nRenders + 1
  /\ rpc' = [rpc EXCEPT ![p] = "list"]
  /\ stack' = [stack EXCEPT ![p] = <<NewFrame(RootId(p))>>]
  /\ blocks' = [blocks EXCEPT ![p] = <<>>]
  /\ result' = [result EXCEPT ![p] = Pending]
  /\ renderError' = [renderError EXCEPT ![p] = "none"]
  /\ delivered' = [delivered EXCEPT ![p] = <<>>]
  /\ fallbacks' = [fallbacks EXCEPT ![p] = {}]
  /\ callPaths' = [callPaths EXCEPT ![p] = <<>>]
  /\ resolved' = [resolved EXCEPT ![p] = <<>>]
  /\ UNCHANGED <<cacheVars, taskVars, imagePaths, nextId, headings, env, nameVars, tocVars>>

\* the error reaches render's catch: every generator is abandoned
Abort(p, why) ==
  /\ stack' = [stack EXCEPT ![p] = <<>>]
  /\ rpc' = [rpc EXCEPT ![p] = "done"]
  /\ result' = [result EXCEPT ![p] = renderCatch(headings)]
  /\ renderError' = [renderError EXCEPT ![p] = why]

\* lines 90-92: the API answers the children-list call with one page
ListRespond(p) ==
  /\ rpc[p] = "list"
  /\ \E recs \in ApiPages(env.blocks - nextId), more \in BOOLEAN :
       /\ more => recs # <<>>
       /\ stack' = SetTop(p, [Top(p) EXCEPT !.queue = WithIds(recs, nextId), !.more = more])
       /\ delivered' = [delivered EXCEPT ![p] =
                          Append(@, [parent |-> Top(p).parent, records |-> WithIds(recs, nextId),
                                     more |-> more])]
       /\ nextId' = nextId + Len(recs)
  /\ rpc' = [rpc EXCEPT ![p] = "block"]
  /\ UNCHANGED <<cacheVars, taskVars, imagePaths, blocks, result, renderError, fallbacks,
                 callPaths, resolved, nRenders, headings, env, nameVars, tocVars>>

\* the children-list call fails: nothing in listBlocks catches it
ListFail(p) ==
  /\ rpc[p] = "list"
  /\ Abort(p, "list")
  /\ UNCHANGED <<cacheVars, imagePaths, blocks, delivered, fallbacks, callPaths, resolved, headings>>
  /\ RenderFrame

\* lines 93-101: the next block of the page: skipped when partial, its
\* children listed first when it has any
TakeBlock(p) ==
  /\ rpc[p] = "block"
  /\ Top(p).cur = <<>>
  /\ Top(p).queue # <<>>
  /\ LET b == Head(Top(p).queue)
         rest == Tail(Top(p).queue)
     IN IF ~isFullBlock(b)
        THEN /\ stack' = SetTop(p, [Top(p) EXCEPT !.queue = rest])
             /\ UNCHANGED rpc
        ELSE IF b.has_children
        THEN /\ stack' = [stack EXCEPT ![p] =
                            Append([@ EXCEPT ![Len(@)] = [Top(p) EXCEPT !.queue = rest, !.cur = <<b>>]],
                                   NewFrame(b.id))]
             /\ rpc' = [rpc EXCEPT ![p] = awaited("list")]
        ELSE /\ stack' = SetTop(p, [Top(p) EXCEPT !.queue = rest, !.cur = <<b>>])
             /\ rpc' = [rpc EXCEPT ![p] = "xform"]
  /\ UNCHANGED <<cacheVars, imagePaths, blocks, result, renderError, delivered, fallbacks,
                 callPaths, resolved, headings>>
  /\ RenderFrame

\* iteratePaginatedAPI: the page is used up and the API reported more
NextPage(p) ==
  /\ rpc[p] = "block"
  /\ Top(p).cur = <<>> /\ Top(p).queue = <<>> /\ Top(p).more
  /\ rpc' = [rpc EXCEPT ![p] = "list"]
  /\ stack' = SetTop(p, [Top(p) EXCEPT !.more = FALSE])
  /\ UNCHANGED <<cacheVars, imagePaths, blocks, result, renderError, delivered, fallbacks,
                 callPaths, resolved, headings>>
  /\ RenderFrame

\* lines 98-100 and 408-410: the generator is done; awaitAll returns its items,
\* which become the parent block's children or the page's blocks
EndList(p) ==
  /\ rpc[p] = "block"
  /\ Top(p).cur = <<>> /\ Top(p).queue = <<>> /\ ~Top(p).more
  /\ IF Len(stack[p]) = 1
     THEN /\ blocks' = [blocks EXCEPT ![p] = Top(p).out]
          /\ stack' = [stack EXCEPT ![p] = <<>>]
          /\ rpc' = [rpc EXCEPT ![p] = "process"]
     ELSE LET parent == stack[p][Len(stack[p]) - 1]
              b == attachChildren(parent.cur[1], Top(p).out)
          IN /\ stack' = [stack EXCEPT ![p] =
                            Append(SubSeq(@, 1, Len(@) - 2), [parent EXCEPT !.cur = <<b>>])]
             /\ rpc' = [rpc EXCEPT ![p] = "xform"]
             /\ UNCHANGED blocks
  /\ UNCHANGED <<cacheVars, imagePaths, result, renderError, delivered, fallbacks,
                 callPaths, resolved, headings>>
  /\ RenderFrame

\* lines 104-197: the block's own rewrite: fetchImage is called, or the block
\* is yielded at once
Transform(p) ==
  /\ rpc[p] = "xform"
  /\ LET b == Top(p).cur[1]
     IN IF needsFetch(b)
        THEN /\ BeginFetch(RenderCaller(p), b.payload)
             /\ rpc' = [rpc EXCEPT ![p] = awaited("fetch")]
             /\ UNCHANGED <<stack, files, unlinking>>
        ELSE /\ stack' = SetTop(p, [Top(p) EXCEPT !.out = awaitAllPush(@, yieldPlain(b)),
                                                  !.cur = <<>>])
             /\ rpc' = [rpc EXCEPT ![p] = "block"]
             /\ UNCHANGED cacheVars
  /\ UNCHANGED <<imagePaths, blocks, result, renderError, delivered, fallbacks,
                 callPaths, resolved, headings>>
  /\ RenderFrame

\* lines 434-446 after the await, then the yield of listBlocks: a path is
\* recorded in #imagePaths, a failure falls back
FetchResume(p) ==
  LET c == RenderCaller(p)
      d == dl[c]
      b == Top(p).cur[1]
      fi == IF d.ok THEN [threw |-> FALSE, value |-> d.path] ELSE fetchImageCatch(b.payload)
      y == yieldAfterFetch(b, fi)
  IN /\ rpc[p] = "fetch"
     /\ d.phase = "settled"
     /\ dl' = [dl EXCEPT ![c] = Idle]
     /\ imagePaths' = IF pushesPath(d) THEN [imagePaths EXCEPT ![p] = imagePathsPush(@, d.path)]
                      ELSE imagePaths
     /\ callPaths' = IF d.ok THEN [callPaths EXCEPT ![p] = imagePathsPush(@, d.path)] ELSE callPaths
     /\ resolved' = IF d.ok THEN [resolved EXCEPT ![p] = Append(@, b.id)] ELSE resolved
     /\ fallbacks' = IF d.ok THEN fallbacks
                     ELSE [fallbacks EXCEPT ![p] =
                             @ \cup {[received |-> b, threw |-> y.threw, yielded |-> y.block]}]
     /\ IF y.threw
        THEN Abort(p, "fetch")
        ELSE /\ stack' = SetTop(p, [Top(p) EXCEPT !.out = awaitAllPush(@, y.block), !.cur = <<>>])
             /\ rpc' = [rpc EXCEPT ![p] = "block"]
             /\ UNCHANGED <<result, renderError>>
     /\ UNCHANGED <<files, unlinking, returnedPaths, nRequests, blocks, delivered, headings>>
     /\ RenderFrame

\* lines 62-66: the pipeline fails
ProcessFail(p) ==
  /\ rpc[p] = "process"
  /\ Abort(p, "pipeline")
  /\ UNCHANGED <<cacheVars, imagePaths, blocks, delivered, fallbacks, callPaths, resolved, headings>>
  /\ RenderFrame

\* lines 47-52 and 62-66: the pipeline runs; rehype-toc hands the outline to
\* customizeTOC, which stores the headings in the closure or throws
Process(p, tag) ==
  LET r == extractTocHeadings(TocNode(tag, PageForest(p)))
  IN /\ rpc[p] = "process"
     /\ IF r.threw
        THEN Abort(p, "toc") /\ UNCHANGED headings
        ELSE /\ headings' = r.headings
             /\ rpc' = [rpc EXCEPT ![p] = "return"]
             /\ UNCHANGED <<stack, result, renderError>>
     /\ UNCHANGED <<cacheVars, imagePaths, blocks, delivered, fallbacks, callPaths, resolved>>
     /\ RenderFrame

\* lines 67 and 414-421: process returns the closure's headings; render returns
\* them with the html and #imagePaths
Return(p) ==
  /\ rpc[p] = "return"
  /\ result' = [result EXCEPT ![p] = [state |-> "returned", html |-> blocks[p],
                                      headings |-> headings, imagePaths |-> imagePaths[p]]]
  /\ rpc' = [rpc EXCEPT ![p] = "done"]
  /\ UNCHANGED <<cacheVars, imagePaths, stack, blocks, renderError, delivered, fallbacks,
                 callPaths, resolved, headings>>
  /\ RenderFrame

\* line 419: `imagePaths: this.#imagePaths`: the value returned holds the
\* renderer's array itself, so it reads as the array reads
returnedImagePaths(p) == imagePaths[p]

----------------------------------------------------------------------------
(* NotionPageRenderer.getPageData and the rewrite task it starts *)

NoCover == [type |-> "none", ref |-> NoRef]
FileObject(t, u) == [type |-> t, ref |-> ApiRef(t, u)]

\* the page object's attributes are fixed when getPageData first reads them
Unread == [cover |-> NoCover, key |-> "unread", files |-> <<>>]

\* a string new URL() rejects
Malformed == <<"not a url">>

PropertyFiles ==
  {FileObject("file", UrlA), FileObject("file", UrlC), FileObject("external", UrlA),
   FileObject("file", NoString), FileObject("file", Malformed), FileObject("external", Malformed)}

PageAttrs ==
  [cover : {NoCover, FileObject("file", UrlB), FileObject("external", UrlB),
            FileObject("file", Malformed), FileObject("file", NoString)},
   key : {"Files", "coverImage"},
   files : UNION {[1..k -> PropertyFiles] : k \in 0..MaxPropFiles}]

\* pages whose files property holds one entry more, some of them unusable
IsolationAttrs ==
  [cover : {FileObject("file", UrlB), FileObject("file", Malformed)},
   key : {"Files"},
   files : [1..(MaxPropFiles + 1) ->
              {FileObject("file", UrlA), FileObject("file", Malformed),
               FileObject("external", Malformed)}]]

\* the page objects the API can have given the renderers of workload e
AttrsOf(e) == IF e.name = "isolation" THEN IsolationAttrs ELSE PageAttrs

NoTask == [at |-> "none", idx |-> 0]
NoPageData == [state |-> "none", calls |-> 0, cover |-> NoCover, files |-> <<>>]

\* The catch clauses a failure of the task meets, each as what it does with
\* the error: lines 320-322, 381-384, 392-395 and 287-289
processCoverImageCatch == [escapes |-> FALSE, log |-> "cover"]
propertyFileCatch == [escapes |-> FALSE, log |-> "file"]
processPropertyImagesCatch == [escapes |-> FALSE, log |-> "properties"]
taskCatch == [escapes |-> FALSE, log |-> "task"]

\* an error thrown inside the catch clauses `chain`, innermost first: the first
\* that does not let it through logs it; with none, the task's promise rejects
RECURSIVE Caught(_, _)
Caught(chain, level) ==
  IF chain = <<>> THEN [escaped |-> TRUE, level |-> 0, log |-> {}]
  ELSE IF Head(chain).escapes THEN Caught(Tail(chain), level + 1)
  ELSE [escaped |-> FALSE, level |-> level, log |-> {Head(chain).log}]

CoverFailure == Caught(<<processCoverImageCatch, taskCatch>>, 1)
FileFailure == Caught(<<propertyFileCatch, processPropertyImagesCatch, taskCatch>>, 1)
LoopFailure == Caught(<<processPropertyImagesCatch, taskCatch>>, 2)

\* lines 343 and 356-366: the entry is downloaded: a hosted file whose URL
\* parses and whose path looks like an image, or any hosted file of coverImage
downloadsEntry(file, key) ==
  /\ file.type = "file"
  /\ file.ref.value # NoString
  /\ IsAbsoluteUrl(file.ref.value)
  /\ \/ key = "coverImage"
     \/ EndsInExtension(Pathname(file.ref.value), PropertyImageExtensions)

\* line 362: new URL(fileUrl) throws, inside the entry's try
entryThrows(file) ==
  file.type = "file" /\ file.ref.value # NoString /\ ~IsAbsoluteUrl(file.ref.value)

\* line 387: new URL(file.external.url) throws, outside the entry's try
loopThrows(file) ==
  file.type = "external" /\ file.ref.value # NoString /\ ~IsAbsoluteUrl(file.ref.value)

\* lines 352-389: the loop from entry i to its next await, to the throw that
\* ends it, or to its end: where it stops and what was caught on the way
RECURSIVE scanEntries(_, _, _)
scanEntries(a, i, caught) ==
  IF i > Len(a.files) THEN [stop |-> i, at |-> "done", caught |-> caught]
  ELSE IF downloadsEntry(a.files[i], a.key) THEN [stop |-> i, at |-> "file", caught |-> caught]
  ELSE IF entryThrows(a.files[i])
       THEN IF FileFailure.level = 1
            THEN scanEntries(a, i + 1, caught \o <<FileFailure>>)
            ELSE [stop |-> i, at |-> "done", caught |-> caught \o <<FileFailure>>]
  ELSE IF loopThrows(a.files[i])
       THEN [stop |-> i, at |-> "done", caught |-> caught \o <<LoopFailure>>]
  ELSE scanEntries(a, i + 1, caught)

\* the first entry at or after i that is downloaded, or Len + 1
nextEntry(a, i) ==
  LET r == scanEntries(a, i, <<>>)
  IN IF r.at = "file" THEN r.stop ELSE Len(a.files) + 1

Logs(caught) == UNION {caught[k].log : k \in 1..Len(caught)}
Escaped(caught) == \E k \in 1..Len(caught) : caught[k].escaped

\* lines 329-396: #processPropertyImages runs from entry i to its next await;
\* `before` is what was caught since the task last awaited
ContinueProperties(p, a, i, before) ==
  \E r \in {scanEntries(a, i, before)} :
     /\ taskLog' = [taskLog EXCEPT ![p] = @ \cup Logs(r.caught)]
     /\ IF Escaped(r.caught)
        THEN /\ NoFetch(TaskCaller(p))
             /\ tpc' = [tpc EXCEPT ![p] = [at |-> "rejected", idx |-> 0]]
        ELSE IF r.at = "file"
        THEN /\ BeginFetch(TaskCaller(p), a.files[r.stop])
             /\ tpc' = [tpc EXCEPT ![p] = [at |-> "file", idx |-> r.stop]]
        ELSE /\ NoFetch(TaskCaller(p))
             /\ tpc' = [tpc EXCEPT ![p] = [at |-> "done", idx |-> 0]]

\* the task's first await as getPageData's call reaches it: lines 279, 316 for
\* a hosted cover, or line 368 for the first entry that is downloaded
firstAwait(a, fs) ==
  IF a.cover.type = "file"
  THEN [at |-> "cover", idx |-> 0, start |-> fileToImageAssetStart(a.cover, fs)]
  ELSE LET r == scanEntries(a, 1, <<>>)
       IN IF r.at = "file"
          THEN [at |-> "file", idx |-> r.stop, start |-> fileToImageAssetStart(a.files[r.stop], fs)]
          ELSE [at |-> "done", idx |-> 0, start |-> Rejected]

\* a task whose cache hits are written into the page object before it awaits
attrsAtReturnRewritten(a, w) ==
  IF w.start.kind # "resolved" THEN a
  ELSE IF w.at = "cover" THEN [a EXCEPT !.cover.ref.value = w.start.path]
  ELSE [a EXCEPT !.files[w.idx].ref.value = w.start.path]

\* lines 316-318, 368-372: every rewrite comes after an await, so the page
\* object is as it was when getPageData returns
attrsAtReturn(a, w) == a

\* a getPageData that returns once the task it started has finished
getPageDataAwaitingTask(w) == IF w.at = "done" THEN "returned" ELSE "pending"

\* lines 275-290, 295-306: the task's promise is dropped; the page's
\* attributes are returned
getPageDataReturns(w) == "returned"

\* a getPageData that hands out a copy of the cover as it was
returnedCoverCopied(p) == pageData[p].cover

\* line 299: `cover: page.cover`: the data returned holds the page's cover
\* object itself
returnedCover(p) == attrs[p].cover

\* a #processCoverImage that assigns whatever the call left behind
coverAfterAlways(a, d) == [a EXCEPT !.cover.ref.value = d.path]

\* lines 316-318: the assignment follows the await inside the try
coverAfter(a, d) == IF d.ok THEN [a EXCEPT !.cover.ref.value = d.path] ELSE a

TaskFrame == UNCHANGED <<renderVars, files, unlinking, nameVars, tocVars>>

\* lines 269-307: getPageData starts the task, which runs to its first await,
\* and returns the page's attributes. Calls follow the previous call's task.
GetPageData(p) ==
  /\ p \in env.pages
  /\ tpc[p].at \in {"none", "done"}
  /\ nTasks < env.tasks
  /\ nTasks' = nTasks + 1
  /\ \E a \in (IF attrs[p] = Unread THEN AttrsOf(env) ELSE {attrs[p]}) :
       LET w == firstAwait(a, files)
           now == attrsAtReturn(a, w)
       IN /\ attrs' = [attrs EXCEPT ![p] = now]
          /\ pageData' = [pageData EXCEPT ![p] =
                            [state |-> getPageDataReturns(w), calls |-> @.calls + 1,
                             cover |-> now.cover, files |-> now.files]]
          /\ IF a.cover.type = "file"
             THEN /\ BeginFetch(TaskCaller(p), a.cover)
                  /\ tpc' = [tpc EXCEPT ![p] = [at |-> "cover", idx |-> 0]]
                  /\ UNCHANGED taskLog
             ELSE ContinueProperties(p, a, 1, <<>>)
  /\ UNCHANGED imagePaths
  /\ TaskFrame

\* lines 313-323 after the await: the cover is rewritten in place, a failure
\* is logged; then the properties are processed
CoverResume(p) ==
  LET d == dl[TaskCaller(p)]
      a == coverAfter(attrs[p], d)
  IN /\ tpc[p].at = "cover"
     /\ d.phase = "settled"
     /\ attrs' = [attrs EXCEPT ![p] = a]
     /\ IF d.ok \/ CoverFailure.level = 1
        THEN ContinueProperties(p, a, 1, IF d.ok THEN <<>> ELSE <<CoverFailure>>)
        ELSE ContinueProperties(p, a, Len(a.files) + 1, <<CoverFailure>>)
     /\ UNCHANGED <<imagePaths, pageData, nTasks>>
     /\ TaskFrame

\* lines 368-384 after the await: the entry is rewritten in place and its path
\* recorded in #imagePaths, a failure is logged; then the loop goes on
FileResume(p) ==
  LET d == dl[TaskCaller(p)]
      i == tpc[p].idx
      a == IF d.ok THEN [attrs[p] EXCEPT !.files[i].ref.value = d.path] ELSE attrs[p]
  IN /\ tpc[p].at = "file"
     /\ d.phase = "settled"
     /\ attrs' = [attrs EXCEPT ![p] = a]
     /\ imagePaths' = IF d.ok THEN [imagePaths EXCEPT ![p] = Append(@, d.path)] ELSE imagePaths
     /\ IF d.ok \/ FileFailure.level = 1
        THEN ContinueProperties(p, a, i + 1, IF d.ok THEN <<>> ELSE <<FileFailure>>)
        ELSE ContinueProperties(p, a, Len(a.files) + 1, <<FileFailure>>)
     /\ UNCHANGED <<pageData, nTasks>>
     /\ TaskFrame

----------------------------------------------------------------------------
(* The specifications *)

vars == <<nameVars, tocVars, mainVars>>

MainIdle ==
  /\ env \in Environments
  /\ files = [fn \in Filenames |-> "absent"]
  /\ dl = [c \in Callers |-> Idle]
  /\ returnedPaths = [u \in AssetUrls |-> {}]
  /\ unlinking = {}
  /\ headings = <<>>
  /\ attrs = [p \in Pages |-> Unread]
  /\ imagePaths = [p \in Pages |-> <<>>]
  /\ rpc = [p \in Pages |-> "idle"]
  /\ stack = [p \in Pages |-> <<>>]
  /\ blocks = [p \in Pages |-> <<>>]
  /\ result = [p \in Pages |-> Pending]
  /\ renderError = [p \in Pages |-> "none"]
  /\ tpc = [p \in Pages |-> NoTask]
  /\ pageData = [p \in Pages |-> NoPageData]
  /\ taskLog = [p \in Pages |-> {}]
  /\ delivered = [p \in Pages |-> <<>>]
  /\ fallbacks = [p \in Pages |-> {}]
  /\ callPaths = [p \in Pages |-> <<>>]
  /\ resolved = [p \in Pages |-> <<>>]
  /\ nextId = 0
  /\ nRenders = 0
  /\ nTasks = 0
  /\ nRequests = 0

NameIdle ==
  /\ urlParts = [dirs |-> <<>>, base |-> <<"img">>, ext |-> <<>>, query |-> <<>>]
  /\ url = UrlOf(urlParts)
  /\ filename = NoString

TocIdle == toc = TocNode("nav", <<>>) /\ tocItems = <<>> /\ tocResult = NotExtracted

\* the renderers of a process, its asset cache and its servers
Init == MainIdle /\ NameIdle /\ TocIdle

Next ==
  \/ \E p \in Pages : Render(p)
  \/ \E p \in Pages : ListRespond(p)
  \/ \E p \in Pages : ListFail(p)
  \/ \E p \in Pages : TakeBlock(p)
  \/ \E p \in Pages : NextPage(p)
  \/ \E p \in Pages : EndList(p)
  \/ \E p \in Pages : Transform(p)
  \/ \E p \in Pages : FetchResume(p)
  \/ \E p \in Pages : ProcessFail(p)
  \/ \E p \in Pages, tag \in {"nav", "div"} : Process(p, tag)
  \/ \E p \in Pages : Return(p)
  \/ \E p \in Pages : GetPageData(p)
  \/ \E p \in Pages : CoverResume(p)
  \/ \E p \in Pages : FileResume(p)
  \/ \E c \in Callers, v \in AssetUrls : Redirect(c, v)
  \/ \E c \in Callers : HttpError(c)
  \/ \E c \in Callers : RequestError(c)
  \/ \E c \in Callers : RequestTimeout(c)
  \/ \E c \in Callers : Respond200(c)
  \/ \E c \in Callers : WriteFinish(c)
  \/ \E c \in Callers : WriteError(c)
  \/ \E fn \in Filenames : Unlink(fn)

Spec == Init /\ [][Next]_vars

\* the task of one getPageData call, with servers that answer without
\* redirecting and one request allowed for the cover and for each entry; the
\* event loop runs the continuation of a settled promise
InitCover == Init /\ env.name = "task"

NextCover ==
  \/ \E p \in Pages : GetPageData(p)
  \/ \E p \in Pages : CoverResume(p)
  \/ \E p \in Pages : FileResume(p)
  \/ \E c \in Callers : HttpError(c)
  \/ \E c \in Callers : RequestError(c)
  \/ \E c \in Callers : RequestTimeout(c)
  \/ \E c \in Callers : Respond200(c)
  \/ \E c \in Callers : WriteFinish(c)
  \/ \E c \in Callers : WriteError(c)
  \/ \E fn \in Filenames : Unlink(fn)

SpecCover == InitCover /\ [][NextCover]_vars /\ \A p \in Pages : WF_vars(CoverResume(p))

\* the filename derivation alone
Quiet == CHOOSE e \in Environments : e.name = "tree"

InitName == NameInit /\ TocIdle /\ MainIdle /\ env = Quiet
NextName == NameCompute /\ UNCHANGED <<tocVars, mainVars>>
SpecName == InitName /\ [][NextName]_vars

\* extractTocHeadings alone
InitToc == TocInit /\ NameIdle /\ MainIdle /\ env = Quiet
NextToc == TocExtract /\ UNCHANGED <<nameVars, mainVars>>
SpecToc == InitToc /\ [][NextToc]_vars

----------------------------------------------------------------------------
(* Helpers of the properties *)

Range(s) == {s[i] : i \in 1..Len(s)}

NoDuplicates(s) == \A i, j \in 1..Len(s) : s[i] = s[j] => i = j

\* s without the later occurrences of its elements
RECURSIVE Distinct(_)
Distinct(s) ==
  IF s = <<>> THEN <<>>
  ELSE LET front == Distinct(SubSeq(s, 1, Len(s) - 1))
       IN IF Last(s) \in Range(front) THEN front ELSE Append(front, Last(s))

\* the records the API returned for `parent`, over all its pages, in order
RECURSIVE RecordsUnder(_, _)
RecordsUnder(events, parent) ==
  IF events = <<>> THEN <<>>
  ELSE (IF Head(events).parent = parent THEN Head(events).records ELSE <<>>)
         \o RecordsUnder(Tail(events), parent)

IsFull(b) == b.full
Ids(bs) == [i \in 1..Len(bs) |-> bs[i].id]

\* the blocks of a materialized tree, every depth
RECURSIVE Flatten(_)
Flatten(bs) ==
  IF bs = <<>> THEN <<>>
  ELSE <<Head(bs)>> \o Flatten(Head(bs).payload.children.blocks) \o Flatten(Tail(bs))

\* the render call of page p has materialized the whole tree
Materialized(p) ==
  \/ rpc[p] \in {"process", "return"}
  \/ rpc[p] = "done" /\ renderError[p] \in {"none", "pipeline", "toc"}

Returned(p) == rpc[p] = "done" /\ result[p].state = "returned"

----------------------------------------------------------------------------
(* C1 *)

\* C1 (cache idempotence): once a resolution of a source URL has returned a
\* local path, no later resolution of that URL issues a network request, and
\* all resolutions of one URL return the same local path.
C1_CacheIdempotence ==
  /\ \A c \in Callers : dl[c].phase = "request" => ~dl[c].late
  /\ \A u \in AssetUrls : Cardinality(returnedPaths[u]) <= 1

----------------------------------------------------------------------------
(* C2 *)

ImageFallbacks(p) == {f \in fallbacks[p] : f.received.type = "image"}

----------------------------------------------------------------------------
(* C3 *)

\* C3: when the asset fetch of a file block fails, listBlocks yields the block
\* it received, unmodified.
C3_FileFetchFailureYieldsOriginal ==
  \A p \in Pages : \A f \in fallbacks[p] :
    f.received.type = "file" => ~f.threw /\ f.yielded = f.received

----------------------------------------------------------------------------
(* C4 *)

\* C4 (no partial output): a render call in which a children-list call, a
\* block's rewrite or the pipeline failed ends with undefined; no render call
\* rejects, and nothing but a returned result holds html or headings.
C4_NoPartialOutput ==
  \A p \in Pages :
    /\ renderError[p] # "none" => rpc[p] = "done" /\ result[p] = Undefined
    /\ result[p].state \in {"pending", "undefined", "returned"}
    /\ result[p].state # "returned" => result[p].html = <<>> /\ result[p].headings = <<>>
    /\ rpc[p] = "done" => result[p].state # "pending"

C4_Witness ==
  \E p \in Pages :
    /\ renderError[p] = "pipeline" /\ blocks[p] # <<>> /\ headings # <<>>
    /\ result[p] = Undefined

----------------------------------------------------------------------------
(* C5 *)

\* `out` holds the full blocks the API returned for `parent`, in the API's
\* order, and so do the children of each of them that has children
RECURSIVE InApiOrder(_, _, _)
InApiOrder(p, parent, out) ==
  /\ Ids(out) = Ids(SelectSeq(RecordsUnder(delivered[p], parent), IsFull))
  /\ \A i \in 1..Len(out) :
       out[i].has_children =>
         /\ out[i].payload.children.attached
         /\ InApiOrder(p, out[i].id, out[i].payload.children.blocks)

\* C5 (order preservation): the materialized blocks are the full blocks under
\* the page in the order the API returned them, over all pagination pages, and
\* so are the children of every block with has_children, at every depth.
C5_OrderPreserved ==
  \A p \in Pages : Materialized(p) => InApiOrder(p, RootId(p), blocks[p])

\* two siblings from two pagination pages, the first with a child of its own
C5_Witness ==
  \E p \in Pages :
    /\ Returned(p)
    /\ Len(result[p].html) >= 2
    /\ result[p].html[1].payload.children.blocks # <<>>
    /\ Cardinality({k \in 1..Len(delivered[p]) :
                      delivered[p][k].parent = RootId(p) /\ delivered[p][k].records # <<>>}) >= 2

----------------------------------------------------------------------------
(* C6 *)

\* every record the API returned to the render call of page p
AllRecords(p) == UNION {Range(delivered[p][k].records) : k \in 1..Len(delivered[p])}

\* every block the generators of page p hold or have yielded
InHand(p) ==
  UNION {Range(Flatten(stack[p][k].out)) \cup Range(Flatten(stack[p][k].cur))
         : k \in 1..Len(stack[p])}
  \cup Range(Flatten(blocks[p]))

\* C6 (partial-block filtering): no partial block is ever held or yielded, no
\* children are listed and no asset is fetched for one, it raises no error,
\* and once the tree is materialized every parent holds as many blocks as the
\* API returned full blocks for it.
C6_PartialBlocksSkipped ==
  \A p \in Pages :
    /\ \A b \in InHand(p) : b.full
    /\ \A k \in 1..Len(delivered[p]) :
         \/ delivered[p][k].parent = RootId(p)
         \/ \E r \in AllRecords(p) : r.id = delivered[p][k].parent /\ r.full
    /\ \A k \in 1..Len(stack[p]) :
         stack[p][k].parent = RootId(p) \/ \E r \in AllRecords(p) : r.id = stack[p][k].parent /\ r.full
    /\ \A f \in fallbacks[p] : f.received.full
    /\ renderError[p] \in {"none", "list", "pipeline", "toc"}
    /\ Materialized(p) =>
         Len(Flatten(blocks[p])) = Cardinality({r \in AllRecords(p) : r.full})

\* the API returned a partial block and two full ones; two blocks are materialized
C6_Witness ==
  \E p \in Pages :
    /\ Returned(p)
    /\ Len(RecordsUnder(delivered[p], RootId(p))) = 3
    /\ ~RecordsUnder(delivered[p], RootId(p))[1].full
    /\ Len(result[p].html) = 2

----------------------------------------------------------------------------
(* C7 *)

\* the positions of the headings of forest f, each as its path from the root list
RECURSIVE PathsOf(_, _)
PathsOf(f, prefix) ==
  UNION {{prefix \o <<i>>} \cup PathsOf(f[i].sub, prefix \o <<i>>) : i \in 1..Len(f)}

\* a comes before b in depth-first pre-order: a is an ancestor of b, or a
\* branches off to the left of b
PreOrderBefore(a, b) ==
  \/ Len(a) < Len(b) /\ SubSeq(b, 1, Len(a)) = a
  \/ \E k \in 1..Len(a) :
       /\ k <= Len(b)
       /\ SubSeq(a, 1, k - 1) = SubSeq(b, 1, k - 1)
       /\ a[k] < b[k]

\* C7 (TOC flattening): for a nav outline, extractTocHeadings returns every
\* heading once, in depth-first pre-order, each with its nesting level as
\* depth (0 in the root list), its link text as text and its href without the
\* leading "#" as slug.
C7_TocFlattening ==
  tocResult # NotExtracted /\ toc.tagName = "nav" =>
    LET hs == tocResult.headings
    IN /\ ~tocResult.threw
       /\ {hs[i].text : i \in 1..Len(hs)} = PathsOf(tocItems, <<>>)
       /\ \A i \in 1..Len(hs) : hs[i].depth = Len(hs[i].text) - 1 /\ hs[i].slug = hs[i].text
       /\ \A i, j \in 1..Len(hs) : i < j => PreOrderBefore(hs[i].text, hs[j].text)

\* H1 > [H2a, H2b > H3] gives depths 0, 1, 1, 2
C7_Witness ==
  /\ tocItems = <<[sub |-> <<[sub |-> <<>>], [sub |-> <<[sub |-> <<>>]>>]>>]>>
  /\ toc.tagName = "nav"
  /\ tocResult.headings =
       <<[depth |-> 0, text |-> <<1>>, slug |-> <<1>>],
         [depth |-> 1, text |-> <<1, 1>>, slug |-> <<1, 1>>],
         [depth |-> 1, text |-> <<1, 2>>, slug |-> <<1, 2>>],
         [depth |-> 2, text |-> <<1, 2, 1>>, slug |-> <<1, 2, 1>>]>>

----------------------------------------------------------------------------
(* C8 *)

\* C8 (extension derivation): the filename is the hash of the URL followed by
\* the extension the URL's path was given, letter case kept and the query
\* ignored, or by .jpg when the path was given none.
C8_ExtensionDerivation ==
  filename # NoString =>
    filename = Md5(url) \o (IF urlParts.ext = <<>> THEN <<".", "jpg">>
                            ELSE <<".">> \o urlParts.ext)

\* .../img.PNG?sig=abc gives a name ending in .PNG
C8_Witness ==
  /\ urlParts.base = <<"img">> /\ urlParts.ext = <<"PNG">>
  /\ urlParts.query = <<"?", "sig", "=", "abc">>
  /\ filename # NoString
  /\ SubSeq(filename, Len(filename) - 1, Len(filename)) = <<".", "PNG">>

----------------------------------------------------------------------------
(* C9, C10 *)

\* C9: the imagePaths a render call returns hold every distinct local path the
\* call produced exactly once, in the order of first production. Stated for a
\* renderer's first render call, with no getPageData task on that renderer.
C9_ImagePathsDistinct ==
  \A p \in Pages :
    Returned(p) /\ nTasks = 0 /\ nRenders = 1 =>
      result[p].imagePaths = Distinct(callPaths[p])

\* C10: the imagePaths a render call returns hold only local paths produced by
\* asset resolutions of that render call.
C10_ImagePathsOfThisCall ==
  \A p \in Pages :
    Returned(p) => Range(result[p].imagePaths) \subseteq Range(callPaths[p])

----------------------------------------------------------------------------
(* C11 *)

\* the loop of the task of page p gets as far as entry i
LoopReaches(p, i) == \A j \in 1..(i - 1) : ~loopThrows(attrs[p].files[j])

\* C11: getPageData has returned its result as soon as it was called, however
\* far the task it started has come; the task's promise never rejects; and
\* once the task is through, every failure it met has been logged: a cover or
\* an entry that still has its remote URL although it was to be downloaded, an
\* entry whose URL does not parse.
C11_GetPageDataNeverFails ==
  \A p \in Pages :
    /\ tpc[p].at # "rejected"
    /\ pageData[p].state \in {"none", "returned"}
    /\ tpc[p].at # "none" => pageData[p].state = "returned" /\ pageData[p].calls >= 1
    /\ tpc[p].at = "done" =>
         /\ attrs[p].cover.type = "file" /\ attrs[p].cover.ref.value \in AssetUrls \cup {Malformed}
              => "cover" \in taskLog[p]
         /\ \A i \in 1..Len(attrs[p].files) :
              LoopReaches(p, i) =>
                /\ downloadsEntry(attrs[p].files[i], attrs[p].key) => "file" \in taskLog[p]
                /\ attrs[p].files[i] = FileObject("file", Malformed) => "file" \in taskLog[p]
                /\ loopThrows(attrs[p].files[i]) => "properties" \in taskLog[p]

\* the cover's download and an entry's download failed, both were logged, the
\* task is through and getPageData had returned
C11_Witness ==
  \E p \in Pages :
    /\ tpc[p].at = "done"
    /\ taskLog[p] = {"cover", "file"}
    /\ pageData[p].state = "returned"
    /\ attrs[p].cover.ref.value = UrlB
    /\ attrs[p].files = <<FileObject("file", UrlA)>>

----------------------------------------------------------------------------
(* C12 *)

----------------------------------------------------------------------------
(* C13 *)

\* C13: the headings a render call returns are those of the outline of its
\* own page, whatever other render calls run with the same processor.
C13_HeadingsOfOwnPage ==
  \A p \in Pages :
    Returned(p) =>
      result[p].headings = extractTocHeadings(TocNode("nav", PageForest(p))).headings

----------------------------------------------------------------------------
(* C14, C15, C16, C17 *)

AllReturnedPaths == UNION {returnedPaths[u] : u \in AssetUrls}

\* C14: once a resolution has returned the path of a file and the file is
\* complete, it stays complete, whatever the other resolutions of the URL do.
C14_CompleteFileStaysComplete ==
  [][\A u \in AssetUrls :
       PublicPath(u) \in AllReturnedPaths /\ files[DownloadFilename(u)] = "complete"
         => files'[DownloadFilename(u)] = "complete"]_vars

\* C15: whenever a resolution returns a path, by the download or by the
\* existence check, the file at that path is completely written.
C15_PathOnlyOfCompleteFile ==
  \A c \in Callers :
    dl[c].phase = "settled" /\ dl[c].ok => files[Tail(dl[c].path)] = "complete"

\* C16: when a resolution that had begun writing its file fails, the file is
\* gone by the time the caller learns of the failure.
C16_FailedWriteLeavesNoFile ==
  \A c \in Callers :
    dl[c].phase = "settled" /\ ~dl[c].ok /\ dl[c].wrote # NoString
      => files[dl[c].wrote] = "absent"

\* C17: no resolution follows more redirects than the bound.
C17_RedirectsBounded ==
  \A c \in Callers : dl[c].hops <= RedirectBound

----------------------------------------------------------------------------
(* C18 *)

----------------------------------------------------------------------------
(* C19 *)

\* C19: when the resolution of a callout's file icon fails, the block is
\* yielded as it was received, its icon object untouched.
C19_CalloutFailureYieldsOriginal ==
  \A p \in Pages : \A f \in fallbacks[p] :
    f.received.type = "callout" => ~f.threw /\ f.yielded = f.received

----------------------------------------------------------------------------
(* C20 *)

IsMedia(b) == b.type \in {"video", "pdf"}

\* C20: the step that processes a video or pdf block issues no request,
\* touches no file and no imagePaths, and yields the block with its reference
\* as the plain URL string, type and caption kept.
C20_MediaBlocksOnlyNormalized ==
  [][\A p \in Pages :
       rpc[p] = "xform" /\ IsMedia(Top(p).cur[1]) /\ rpc'[p] # "xform" =>
         /\ cacheVars' = cacheVars
         /\ imagePaths' = imagePaths /\ callPaths' = callPaths
         /\ LET b == Top(p).cur[1]
                y == Last(stack'[p][Len(stack'[p])].out)
            IN /\ y.id = b.id /\ y.type = b.type
               /\ y.payload.type = b.payload.type
               /\ y.payload.caption = b.payload.caption
               /\ y.payload.ref = StringRef(b.payload.ref.value)]_vars

\* a page of a hosted video and an external pdf was rendered without a request
C20_Witness ==
  \E p \in Pages :
    /\ Returned(p)
    /\ \E i, j \in 1..Len(result[p].html) :
         /\ result[p].html[i].type = "video" /\ result[p].html[i].payload.type = "file"
         /\ result[p].html[i].payload.ref = StringRef(UrlC)
         /\ result[p].html[j].type = "pdf" /\ result[p].html[j].payload.type = "external"
         /\ result[p].html[j].payload.ref = StringRef(UrlC)
    /\ nRequests = 0
    /\ \A fn \in Filenames : files[fn] = "absent"
    /\ result[p].imagePaths = <<>>

----------------------------------------------------------------------------
(* C21 *)

\* C21: no request is issued and no cache file is written for a file object
\* of type external, whoever hands it to fileToImageAsset.
C21_OnlyHostedDownloaded ==
  \A c \in Callers :
    dl[c].kind = "external" =>
      /\ dl[c].phase \notin {"request", "writing"}
      /\ dl[c].wrote = NoString
      /\ dl[c].hops = 0

----------------------------------------------------------------------------
(* C22 *)

\* C22: a file block whose URL matches the image pattern and whose resolution
\* succeeded is yielded with the local path as its reference, hosted or
\* external; a file block whose URL does not match is yielded as it is, and no
\* resolution is called for it.
C22_FileBlockRewritten ==
  [][\A p \in Pages :
       /\ rpc[p] = "fetch" /\ rpc'[p] = "block" /\ Top(p).cur[1].type = "file"
            /\ dl[RenderCaller(p)].ok
          => Last(stack'[p][Len(stack'[p])].out).payload.ref
               = StringRef(dl[RenderCaller(p)].path)
       /\ rpc[p] = "xform" /\ rpc'[p] # "xform" /\ Top(p).cur[1].type = "file"
            /\ ~fileBlockLooksLikeImage(Top(p).cur[1])
          => /\ rpc'[p] = "block"
             /\ Last(stack'[p][Len(stack'[p])].out) = Top(p).cur[1]
             /\ cacheVars' = cacheVars]_vars

----------------------------------------------------------------------------
(* C23 *)

\* C23: the rewrite task awaits a download for an entry of a files property
\* only if the path of the entry's URL ends in an image extension, whatever
\* the property is called.
C23_OnlyImageEntriesDownloaded ==
  \A p \in Pages :
    tpc[p].at = "file" =>
      EndsInExtension(Pathname(dl[TaskCaller(p)].url), PropertyImageExtensions)

----------------------------------------------------------------------------
(* C24 *)

\* the children-list calls of page p for `parent` have run to the last page
ListedToTheEnd(p, parent) ==
  LET evs == SelectSeq(delivered[p], LAMBDA e : e.parent = parent)
  IN evs # <<>> /\ ~Last(evs).more

\* block b holds the whole of what the API listed under it
HoldsItsSubtree(p, b) ==
  b.has_children =>
    /\ b.payload.children.attached
    /\ ListedToTheEnd(p, b.id)
    /\ Ids(b.payload.children.blocks) = Ids(SelectSeq(RecordsUnder(delivered[p], b.id), IsFull))

\* every block the generators of page p have yielded, every depth
Yielded(p) ==
  UNION {Range(Flatten(stack[p][k].out)) : k \in 1..Len(stack[p])} \cup Range(Flatten(blocks[p]))

\* C24: a block with has_children holds its whole subtree, every pagination
\* page of it, when listBlocks turns to the block's own asset and when it
\* yields the block.
C24_ChildrenBeforeBlock ==
  \A p \in Pages :
    /\ rpc[p] \in {"xform", "fetch"} => HoldsItsSubtree(p, Top(p).cur[1])
    /\ \A b \in Yielded(p) : HoldsItsSubtree(p, b)

\* the icon of a callout is being fetched; its two children, listed in two
\* pagination pages, are attached
C24_Witness ==
  \E p \in Pages :
    /\ rpc[p] = "fetch"
    /\ Top(p).cur[1].type = "callout" /\ Top(p).cur[1].has_children
    /\ Len(Top(p).cur[1].payload.children.blocks) = 2
    /\ Len(SelectSeq(delivered[p], LAMBDA e : e.parent = Top(p).cur[1].id)) = 2
    /\ dl[RenderCaller(p)].phase = "request"

----------------------------------------------------------------------------
(* C25 *)

Listing(p) == rpc[p] = "list"
Downloading(p) == dl[RenderCaller(p)].phase \in {"request", "writing"}

\* C25: a render call has a children-list call or an asset download
\* outstanding only while its innermost generator waits for just that call,
\* and never both.
C25_OneRequestAtATime ==
  \A p \in Pages :
    /\ ~(Listing(p) /\ Downloading(p))
    /\ Downloading(p) => rpc[p] = "fetch"
    /\ rpc[p] \in {"block", "xform", "process", "return", "done", "idle"} =>
         ~Listing(p) /\ ~Downloading(p)

\* the asset of a block is being downloaded while its sibling waits in the queue
C25_Witness ==
  \E p \in Pages :
    /\ Downloading(p)
    /\ Top(p).queue # <<>>
    /\ needsFetch(Head(Top(p).queue))

----------------------------------------------------------------------------
(* C27 *)

\* the block the API listed `id` under, for page p
ParentOf(p, id) ==
  LET evs == SelectSeq(delivered[p], LAMBDA e : id \in Range(Ids(e.records)))
  IN Head(evs).parent

\* `id` and the blocks it is nested in
RECURSIVE Chain(_, _)
Chain(p, id) == IF id = RootId(p) THEN {} ELSE {id} \cup Chain(p, ParentOf(p, id))

\* block a finishes materializing before block b: a is nested in b, or a is in
\* the subtree of an earlier sibling of the block whose subtree holds b
FinishesBefore(p, a, b) ==
  /\ a # b
  /\ \/ b \in Chain(p, a)
     \/ /\ a \notin Chain(p, b)
        /\ \E x \in Chain(p, a), y \in Chain(p, b) :
             x # y /\ ParentOf(p, x) = ParentOf(p, y) /\ x < y

\* C27: in a renderer that ran no rewrite task, the paths of a render call are
\* the last of imagePaths, one for each successful resolution, in the order in
\* which the blocks they were resolved for finished materializing, and each is
\* the path its block was yielded with.
C27_ImagePathsInCallOrder ==
  \A p \in Pages :
    nTasks = 0 =>
      /\ Len(callPaths[p]) = Len(resolved[p])
      /\ Len(callPaths[p]) <= Len(imagePaths[p])
      /\ SubSeq(imagePaths[p], Len(imagePaths[p]) - Len(callPaths[p]) + 1, Len(imagePaths[p]))
           = callPaths[p]
      /\ \A i, j \in 1..Len(resolved[p]) :
           i < j => FinishesBefore(p, resolved[p][i], resolved[p][j])
      /\ \A i \in 1..Len(resolved[p]) : \A b \in Yielded(p) :
           b.id = resolved[p][i] /\ b.payload.type = "file" =>
             b.payload.ref.value = callPaths[p][i]

\* the image nested in a callout was resolved before the callout's icon
C27_Witness ==
  \E p \in Pages :
    /\ Returned(p)
    /\ result[p].imagePaths = <<PublicPath(UrlB), PublicPath(UrlA)>>
    /\ Len(result[p].html) = 1
    /\ result[p].html[1].type = "callout"
    /\ result[p].html[1].payload.ref.value = PublicPath(UrlA)
    /\ Len(result[p].html[1].payload.children.blocks) = 1
    /\ result[p].html[1].payload.children.blocks[1].payload.ref.value = PublicPath(UrlB)

----------------------------------------------------------------------------
(* C26 *)

\* C26: the path a resolution of URL u returns is /notion-images/ followed by
\* the hash of u and the extension of u's path, however the server answered.
C26_PathKeyedByUrl ==
  \A c \in Callers :
    dl[c].phase = "settled" /\ dl[c].ok => dl[c].path = PublicPath(dl[c].url)

----------------------------------------------------------------------------
(* C28 *)

LocalPaths == {PublicPath(u) : u \in AssetUrls}

CoverDownloaded(p) ==
  /\ tpc[p].at = "cover"
  /\ dl[TaskCaller(p)].phase = "settled" /\ dl[TaskCaller(p)].ok

\* C28: once the download of a hosted cover has succeeded, the cover the
\* earlier getPageData call returned comes to show a local path, the one the
\* download gave; a cover of type external is never awaited for and stays as
\* the API gave it.
C28_CoverEventuallyLocal ==
  /\ \A p \in Pages :
       CoverDownloaded(p)
         ~> (pageData[p].state = "returned" /\ returnedCover(p).ref.value \in LocalPaths)
  /\ [][\A p \in Pages :
          CoverDownloaded(p) /\ tpc'[p].at # "cover" =>
            returnedCover(p)'.ref.value = dl[TaskCaller(p)].path]_vars
  /\ [](\A p \in Pages :
          attrs[p].cover.type = "external" =>
            /\ attrs[p].cover = FileObject("external", UrlB)
            /\ returnedCover(p) = FileObject("external", UrlB)
            /\ tpc[p].at # "cover")

\* getPageData returned the cover with its remote URL, and the object now
\* shows the local path
C28_Witness ==
  \E p \in Pages :
    /\ tpc[p].at = "done"
    /\ pageData[p].state = "returned"
    /\ pageData[p].cover = FileObject("file", UrlB)
    /\ returnedCover(p).ref.value = PublicPath(UrlB)
    /\ files[DownloadFilename(UrlB)] = "complete"

----------------------------------------------------------------------------
(* C29 *)

\* C29: extractTocHeadings throws and gives no headings for an outline whose
\* root is not a nav; a render call whose pipeline met this returns undefined;
\* and a pipeline that goes on to return has the headings of a nav outline.
C29_TocFailureAbortsRender ==
  /\ [](\A p \in Pages :
          /\ extractTocHeadings(TocNode("div", PageForest(p))).threw
          /\ extractTocHeadings(TocNode("div", PageForest(p))).headings = <<>>
          /\ renderError[p] = "toc" => rpc[p] = "done" /\ result[p] = Undefined
          /\ Returned(p) => renderError[p] = "none")
  /\ [][\A p \in Pages :
          rpc[p] = "process" /\ rpc'[p] = "return" =>
            headings' = listElementToTree(ListNode(PageForest(p), <<>>), 0)]_vars

\* the tree was materialized, the outline's root was no nav, and the render
\* call returned undefined
C29_Witness ==
  \E p \in Pages :
    /\ renderError[p] = "toc"
    /\ blocks[p] # <<>>
    /\ result[p] = Undefined

----------------------------------------------------------------------------
(* C30 *)

\* C30: fileToImageAsset rejects, with no path, when the file object gives no
\* URL, when the response's status is not 200, when the request errors or
\* times out, and when the write stream fails.
C30_FailuresReject ==
  /\ [](/\ fileToImageAssetStart(NoCover, files) = Rejected
        /\ \A c \in Callers :
             dl[c].phase = "settled" /\ dl[c].url = NoString =>
               ~dl[c].ok /\ dl[c].path = NoString /\ dl[c].wrote = NoString)
  /\ [][\A c \in Callers :
          HttpError(c) \/ RequestError(c) \/ RequestTimeout(c) \/ WriteError(c) =>
            /\ dl'[c].phase = "settled" /\ ~dl'[c].ok /\ dl'[c].path = NoString
            /\ returnedPaths' = returnedPaths]_vars

\* the task's call for a cover without a URL was rejected, and so was the
\* render call's, whose write stream failed
C30_Witness ==
  \E p \in Pages :
    /\ tpc[p].at = "cover" /\ attrs[p].cover = FileObject("file", NoString)
    /\ dl[TaskCaller(p)].phase = "settled" /\ dl[TaskCaller(p)].why = "no url"
    /\ dl[RenderCaller(p)].phase = "settled" /\ dl[RenderCaller(p)].why = "write"
    /\ ~dl[RenderCaller(p)].ok

----------------------------------------------------------------------------
(* C31 *)

\* the blocks of the last branch of listBlocks, lines 195-197
PassedThrough(b) ==
  /\ b.full
  /\ b.type \notin {"image", "file", "video", "pdf"}
  /\ ~(b.type = "callout" /\ b.payload.type = "file")

\* the record of the API's answers that has the id of b
Received(p, b) ==
  CHOOSE r \in UNION {{delivered[p][k].records[i] : i \in 1..Len(delivered[p][k].records)} :
                        k \in 1..Len(delivered[p])} : r.id = b.id

\* C31: a full block that is no image, file, video or pdf and no callout with
\* a hosted icon is yielded as the API gave it but for its attached children,
\* and no resolution call is made for it.
C31_OtherBlocksPassThrough ==
  [][\A p \in Pages :
       rpc[p] = "xform" /\ rpc'[p] # "xform" /\ PassedThrough(Top(p).cur[1]) =>
         /\ rpc'[p] = "block"
         /\ Last(stack'[p]).out = Append(Top(p).out, Top(p).cur[1])
         /\ Top(p).cur[1] =
              [Received(p, Top(p).cur[1]) EXCEPT !.payload.children = Top(p).cur[1].payload.children]
         /\ UNCHANGED <<dl, nRequests, returnedPaths, imagePaths, callPaths>>]_vars

\* a callout with an external icon came back with its icon as the API gave it
\* and an unsupported block attached as its child, with no request made
C31_Witness ==
  \E p \in Pages :
    /\ Returned(p)
    /\ nRequests = 0
    /\ Len(result[p].html) = 1
    /\ result[p].html[1].type = "callout"
    /\ result[p].html[1].payload.type = "external"
    /\ result[p].html[1].payload.ref = ObjectRef(UrlA)
    /\ result[p].html[1].payload.children.attached
    /\ Len(result[p].html[1].payload.children.blocks) = 1
    /\ result[p].html[1].payload.children.blocks[1].type = "unsupported"

----------------------------------------------------------------------------
(* C32 *)

\* /notion-images/{hash}{extension} for one of the URLs
IsCachePath(s) ==
  /\ s # <<>>
  /\ s[1] = "/notion-images/"
  /\ \E u \in AssetUrls : Tail(s) = Md5(u) \o DownloadExtension(u)

\* C32: every element of #imagePaths is a local cache path, and the step that
\* takes up a failed resolution, in render or in the task, appends nothing.
C32_ImagePathsAreLocal ==
  /\ [](\A p \in Pages : \A i \in 1..Len(imagePaths[p]) : IsCachePath(imagePaths[p][i]))
  /\ [][\A p \in Pages :
          \/ rpc[p] = "fetch" /\ rpc'[p] # "fetch" /\ ~dl[RenderCaller(p)].ok
          \/ tpc[p].at = "file" /\ tpc'[p] # tpc[p] /\ ~dl[TaskCaller(p)].ok
          => imagePaths'[p] = imagePaths[p]]_vars

\* a render fell back to a remote URL for one image and recorded the path of
\* another
C32_Witness ==
  \E p \in Pages :
    /\ Returned(p)
    /\ fallbacks[p] # {}
    /\ \E f \in fallbacks[p] : ~f.threw /\ f.yielded.payload.ref.value \in AssetUrls
    /\ Len(imagePaths[p]) = 1

----------------------------------------------------------------------------
(* C33 *)

\* C33: once render has returned a value, the imagePaths that value holds
\* stay as they are, whatever step the renderer or its task takes.
C33_ReturnedImagePathsFixed ==
  [][\A p \in Pages :
       result[p].state = "returned" => returnedImagePaths(p)' = returnedImagePaths(p)]_vars

----------------------------------------------------------------------------
(* C34 *)

\* no hosted cover and no entry of the files property is left that a task
\* would send a request for
NoRemoteLeft(p) ==
  /\ attrs[p] # Unread
  /\ ~(attrs[p].cover.type = "file" /\ IsAbsoluteUrl(attrs[p].cover.ref.value))
  /\ \A i \in 1..Len(attrs[p].files) : ~downloadsEntry(attrs[p].files[i], attrs[p].key)

\* C34: getPageData calls after the first return normally; a cover or entry
\* that shows a local path is never changed again; and once no reference is
\* left that a task downloads, a later call sends no request and its task
\* adds nothing to #imagePaths.
C34_RewritingIdempotent ==
  /\ [](\A p \in Pages :
          pageData[p].calls >= 2 =>
            /\ pageData[p].state = "returned"
            /\ NoRemoteLeft(p) => dl[TaskCaller(p)].phase \notin {"request", "writing"})
  /\ [][\A p \in Pages :
          /\ IsCachePath(attrs[p].cover.ref.value) => attrs'[p].cover = attrs[p].cover
          /\ \A i \in 1..Len(attrs[p].files) :
               IsCachePath(attrs[p].files[i].ref.value) => attrs'[p].files[i] = attrs[p].files[i]
          /\ pageData'[p].calls >= 2 /\ NoRemoteLeft(p) /\ tpc'[p] # tpc[p] =>
               /\ imagePaths'[p] = imagePaths[p]
               /\ attrs'[p] = attrs[p]
               /\ nRequests' = nRequests]_vars

\* the first call's task rewrote the cover and the entry, and the task of the
\* second call is done with both left as they were and no further request
C34_Witness ==
  \E p \in Pages :
    /\ pageData[p].calls = 2 /\ tpc[p].at = "done"
    /\ attrs[p].cover.ref.value = PublicPath(UrlB)
    /\ Len(attrs[p].files) = 1 /\ attrs[p].files[1].ref.value = PublicPath(UrlA)
    /\ imagePaths[p] = <<PublicPath(UrlA)>>
    /\ nRequests = 2
    /\ taskLog[p] # {}

\* C34 as stated, for the requests: no call after the first has a request in
\* flight.
C34_SecondCallDownloadsNothing ==
  \A p \in Pages :
    pageData[p].calls >= 2 => dl[TaskCaller(p)].phase \notin {"request", "writing"}

----------------------------------------------------------------------------
(* C35 *)

\* the entry of the files property the task last awaited for, or 0
LastAwaited(p) == IF tpc[p].at = "file" THEN tpc[p].idx ELSE 0

\* C35: the task ends only when no later entry is left that it downloads,
\* whatever failed before; and a failed download leaves the cover or the
\* entry with the URL it had.
C35_FailuresIsolated ==
  [][\A p \in Pages :
       /\ tpc'[p] # tpc[p] /\ tpc'[p].at = "done" =>
            \A j \in (LastAwaited(p) + 1)..Len(attrs'[p].files) :
              ~downloadsEntry(attrs'[p].files[j], attrs'[p].key)
       /\ tpc'[p] # tpc[p] /\ tpc[p].at \in {"cover", "file"} /\ ~dl[TaskCaller(p)].ok =>
            attrs'[p] = attrs[p]]_vars

----------------------------------------------------------------------------
(* C36 *)

\* the URL of the same path with no query string
WithoutQuery(u) == <<Origin>> \o Pathname(u)

\* the records the API delivered to the render call of page p
DeliveredRecords(p) ==
  UNION {{delivered[p][k].records[i] : i \in 1..Len(delivered[p][k].records)} :
           k \in 1..Len(delivered[p])}

\* C36: a hosted file block, and a hosted entry of the files property, is
\* taken for an image exactly when the same reference without its query
\* string is.
C36_ClassifiedByPath ==
  \A p \in Pages :
    /\ \A b \in DeliveredRecords(p) :
         b.full /\ b.type = "file" /\ b.payload.type = "file" =>
           (needsFetch(b) <=>
              needsFetch([b EXCEPT !.payload.ref.value = WithoutQuery(b.payload.ref.value)]))
    /\ \A i \in 1..Len(attrs[p].files) :
         attrs[p].files[i].type = "file" /\ IsAbsoluteUrl(attrs[p].files[i].ref.value) =>
           (downloadsEntry(attrs[p].files[i], attrs[p].key) <=>
              downloadsEntry(FileObject("file", WithoutQuery(attrs[p].files[i].ref.value)),
                             attrs[p].key))

====
